---- MODULE Spec2Model ----
(***************************************************************************)
(* Model of the two FastAPI application modules app/main.py (POST          *)
(* /generate) and app/handler.py (POST /run) and of app/model_loader.py.   *)
(* One serving process imports one of the two application modules; the    *)
(* import runs the module-level statements (load_model(), route            *)
(* registration) and the process then serves requests.  The model and     *)
(* tokenizer are stubs: a character-level tokenizer with two special       *)
(* tokens and a deterministic generator that records its call arguments.  *)
(* Strings are sequences of one-character strings; the temperature is     *)
(* counted in tenths (0.7 is 7).                                           *)
(***************************************************************************)
EXTENDS Integers, Sequences, FiniteSets, TLC

VARIABLES
    app,          \* the application module the process imports: "main" or "handler"
    startPc,      \* position of the module-level code: init, loaded, serving, crashed
    loadResult,   \* outcome of load_model(): pending, ok, raised
    loadCalls,    \* number of load_model() invocations in this process
    gModel,       \* module-level name `model`
    gTokenizer,   \* module-level name `tokenizer` (main.py only)
    rpc,          \* per request: new, received, ready, encoded, generated, done
    body,         \* per request: the JSON body, a function from field names to values
    req,          \* per request: the validated pydantic object
    inputs,       \* per request: local `inputs` of generate()
    outputs,      \* per request: local `outputs` of generate()
    text,         \* per request: local `text` of generate()
    status,       \* per request: HTTP status of the response, 0 while there is none
    respBody,     \* per request: JSON body of the response
    raised,       \* per request: the exception that left the handler: none, generate, attribute, type
    handlerRuns,  \* per request: number of times the route function was entered
    tokCalls,     \* per request: number of tokenizer encode calls
    calls,        \* the stub model's record of generate calls, in call order
    loopCurrent   \* the request whose coroutine the event loop is running, 0 when idle

vars == <<app, startPc, loadResult, loadCalls, gModel, gTokenizer, rpc, body, req,
          inputs, outputs, text, status, respBody, raised, handlerRuns, tokCalls,
          calls, loopCurrent>>

(***************************************************************************)
(* Bounds                                                                  *)
(***************************************************************************)
NumReqs == 2
StubMaxGen == 2

Reqs == 1..NumReqs

(***************************************************************************)
(* Program constants                                                       *)
(***************************************************************************)
DefaultMaxTokens == 128
DefaultTemperature == 7

EmptyFn == [x \in {} |-> 0]

(***************************************************************************)
(* Python objects                                                          *)
(***************************************************************************)
NoneObj == [type |-> "none"]
ModelObj(n) == [type |-> "model", load |-> n]
TokenizerObj(n) == [type |-> "tokenizer", load |-> n]
TupleObj(a, b) == [type |-> "tuple", items |-> <<a, b>>]

\* model_loader.load_model: returns the pair (model, tokenizer)
load_model(n) == TupleObj(ModelObj(n), TokenizerObj(n))

\* getattr(obj, "generate") succeeds only on a model object
HasGenerate(obj) == obj.type = "model"

\* obj(...) succeeds only on a tokenizer object
IsCallableTokenizer(obj) == obj.type = "tokenizer"

\* the binding of the module-level names once load_model() has returned:
\* main.py unpacks the pair, handler.py binds the whole pair to `model`
BindModel(a, loaded) == IF a = "main" THEN loaded.items[1] ELSE loaded
BindTokenizer(a, loaded) == IF a = "main" THEN loaded.items[2] ELSE NoneObj

(***************************************************************************)
(* Stub tokenizer and stub model                                           *)
(***************************************************************************)
Vocab == <<"<s>", "</s>", "a", "b", "x">>
BOS == 0
EOS == 1
GenTok == 4
SpecialIds == {BOS, EOS}
TokenOf(c) == CHOOSE i \in 0..(Len(Vocab) - 1) : Vocab[i + 1] = c
PieceOf(i) == Vocab[i + 1]

\* tokenizer(prompt, return_tensors="pt"): a batch of one sequence
Tokenize(prompt) ==
    [input_ids |-> << <<BOS>> \o [i \in 1..Len(prompt) |-> TokenOf(prompt[i])] >>,
     attention_mask |-> << [i \in 1..(Len(prompt) + 1) |-> 1] >>]

IsSpecial(i) == i \in SpecialIds
NotSpecial(i) == i \notin SpecialIds

\* tokenizer.decode(ids, skip_special_tokens=skip)
Decode(ids, skip) ==
    LET kept == IF skip THEN SelectSeq(ids, NotSpecial) ELSE ids
    IN  [i \in 1..Len(kept) |-> PieceOf(kept[i])]

\* the tokens the stub appends: it stops with EOS after StubMaxGen tokens
NewTokens(maxNew) ==
    IF maxNew > StubMaxGen
    THEN [i \in 1..StubMaxGen |-> GenTok] \o <<EOS>>
    ELSE [i \in 1..maxNew |-> GenTok]

\* model.generate(input_ids=..., max_new_tokens=...): prompt ids then new tokens
StubGenerate(ids, maxNew) == << ids[1] \o NewTokens(maxNew) >>

(***************************************************************************)
(* Requests                                                                *)
(***************************************************************************)
Prompts == {<<>>, <<"a", "b">>}
MaxTokensValues == {0, 2}
TemperatureValues == {10}

PromptPart == {EmptyFn} \cup {("prompt" :> p) : p \in Prompts}
MaxTokensPart == {EmptyFn} \cup {("max_tokens" :> n) : n \in MaxTokensValues}
TemperaturePart == {EmptyFn} \cup {("temperature" :> t) : t \in TemperatureValues}
Bodies == {p @@ m @@ t : p \in PromptPart, m \in MaxTokensPart, t \in TemperaturePart}

\* variant of GenRequest: temperature defaults to the library's 1.0
GenRequest_other ==
    [required |-> {"prompt"},
     defaults |-> ("max_tokens" :> DefaultMaxTokens) @@ ("temperature" :> 10)]

\* class GenRequest (main.py) and class Input (handler.py)
GenRequest ==
    [required |-> {"prompt"},
     defaults |-> ("max_tokens" :> DefaultMaxTokens) @@ ("temperature" :> DefaultTemperature)]
Input == [required |-> {"prompt"}, defaults |-> EmptyFn]
Schema(a) == IF a = "main" THEN GenRequest ELSE Input

\* the required fields a body lacks
ValidationErrors(schema, b) == schema.required \ DOMAIN b

\* the pydantic object: declared fields only, defaults for omitted ones
ParseBody(schema, b) ==
    [f \in schema.required \cup DOMAIN schema.defaults |->
        IF f \in DOMAIN b THEN b[f] ELSE schema.defaults[f]]

NoReq == EmptyFn
NoInputs == [input_ids |-> <<>>, attention_mask |-> <<>>]

(***************************************************************************)
(* Start-up: the module-level statements                                   *)
(***************************************************************************)
Init ==
    /\ app \in {"main", "handler"}
    /\ startPc = "init"
    /\ loadResult = "pending"
    /\ loadCalls = 0
    /\ gModel = NoneObj
    /\ gTokenizer = NoneObj
    /\ rpc = [r \in Reqs |-> "new"]
    /\ body = [r \in Reqs |-> EmptyFn]
    /\ req = [r \in Reqs |-> NoReq]
    /\ inputs = [r \in Reqs |-> NoInputs]
    /\ outputs = [r \in Reqs |-> <<>>]
    /\ text = [r \in Reqs |-> <<>>]
    /\ status = [r \in Reqs |-> 0]
    /\ respBody = [r \in Reqs |-> EmptyFn]
    /\ raised = [r \in Reqs |-> "none"]
    /\ handlerRuns = [r \in Reqs |-> 0]
    /\ tokCalls = [r \in Reqs |-> 0]
    /\ calls = <<>>
    /\ loopCurrent = 0

reqVars == <<rpc, body, req, inputs, outputs, text, status, respBody, raised,
             handlerRuns, tokCalls, calls, loopCurrent>>

\* `model, tokenizer = load_model()` / `model = load_model()` returns
LoadOk ==
    /\ startPc = "init"
    /\ loadCalls' = loadCalls + 1
    /\ loadResult' = "ok"
    /\ gModel' = BindModel(app, load_model(loadCalls + 1))
    /\ gTokenizer' = BindTokenizer(app, load_model(loadCalls + 1))
    /\ startPc' = "loaded"
    /\ UNCHANGED <<app, reqVars>>

\* variant of LoadRaises: the exception is swallowed and the import goes on
LoadRaises_caught ==
    /\ startPc = "init"
    /\ loadCalls' = loadCalls + 1
    /\ loadResult' = "raised"
    /\ startPc' = "loaded"
    /\ UNCHANGED <<app, gModel, gTokenizer, reqVars>>

\* load_model() raises: nothing catches it, the import fails and the process ends
LoadRaises ==
    /\ startPc = "init"
    /\ loadCalls' = loadCalls + 1
    /\ loadResult' = "raised"
    /\ startPc' = "crashed"
    /\ UNCHANGED <<app, gModel, gTokenizer, reqVars>>

\* the @app.post(...) decorator runs and the import completes
RegisterRoute ==
    /\ startPc = "loaded"
    /\ startPc' = "serving"
    /\ UNCHANGED <<app, loadResult, loadCalls, gModel, gTokenizer, reqVars>>

(***************************************************************************)
(* Framework behaviour around the route functions                          *)
(***************************************************************************)

\* the missing fields, listed in the error body
DetailOf(errs) ==
    CHOOSE s \in [1..Cardinality(errs) -> errs] : \A f \in errs : \E i \in DOMAIN s : s[i] = f

\* variant of UnhandledResponse: the failure is caught and an empty result returned
UnhandledResponse_partial == [status |-> 200, body |-> ("completion" :> <<>>)]

\* an exception leaving a route function: no except clause, the framework answers 500
UnhandledResponse == [status |-> 500, body |-> EmptyFn]

\* variant of ValidationStatus: the missing field surfaces as a server error
ValidationStatus_server == UnhandledResponse.status

\* a body that fails the schema is answered by the framework, before the handler
ValidationStatus == 422

\* variant of SuspendsAfter: an await after the encode step
SuspendsAfter_await(step) == step = "encode"

\* generate() is a coroutine whose body holds no await: it never yields the loop
SuspendsAfter(step) == FALSE

(***************************************************************************)
(* Arguments and values of the /generate handler                           *)
(***************************************************************************)
\* variant of MaxNewTokensArg: `req.max_tokens or 128`
MaxNewTokensArg_falsy(q) == IF q.max_tokens = 0 THEN DefaultMaxTokens ELSE q.max_tokens

\* max_new_tokens=req.max_tokens
MaxNewTokensArg(q) == q.max_tokens

\* temperature=req.temperature
TemperatureArg(q) == q.temperature

\* variant of SkipSpecialTokens: special tokens are kept
SkipSpecialTokens_keep == FALSE

\* skip_special_tokens=True
SkipSpecialTokens == TRUE

Succeeded(c) == ~c.raised

\* variant of DecodedSequence: the first sequence any request ever generated
DecodedSequence_shared(r) == SelectSeq(calls, Succeeded)[1].result[1]

\* outputs[0], of the handler's own local `outputs`
DecodedSequence(r) == outputs[r][1]

(***************************************************************************)
(* Requests                                                                *)
(***************************************************************************)
startVars == <<app, startPc, loadResult, loadCalls, gModel, gTokenizer>>

\* a client sends a request to the served route
Arrive(r) ==
    /\ startPc = "serving"
    /\ rpc[r] = "new"
    /\ \E b \in Bodies : body' = [body EXCEPT ![r] = b]
    /\ rpc' = [rpc EXCEPT ![r] = "received"]
    /\ UNCHANGED <<startVars, req, inputs, outputs, text, status, respBody, raised,
                   handlerRuns, tokCalls, calls, loopCurrent>>

\* the framework builds the handler's parameter (req: GenRequest / input: Input)
Validate(r) ==
    /\ startPc = "serving"
    /\ rpc[r] = "received"
    /\ (app = "main") => (loopCurrent = 0)
    /\ LET errs == ValidationErrors(Schema(app), body[r]) IN
         IF errs # {}
         THEN /\ status' = [status EXCEPT ![r] = ValidationStatus]
              /\ respBody' = [respBody EXCEPT ![r] = ("detail" :> DetailOf(errs))]
              /\ rpc' = [rpc EXCEPT ![r] = "done"]
              /\ req' = req
         ELSE /\ req' = [req EXCEPT ![r] = ParseBody(Schema(app), body[r])]
              /\ rpc' = [rpc EXCEPT ![r] = "ready"]
              /\ UNCHANGED <<status, respBody>>
    /\ UNCHANGED <<startVars, body, inputs, outputs, text, raised, handlerRuns,
                   tokCalls, calls, loopCurrent>>

\* variant of GenEncode: the handler loads the model again on every request
GenEncode_reload(r) ==
    /\ startPc = "serving"
    /\ app = "main"
    /\ rpc[r] = "ready"
    /\ loopCurrent = 0
    /\ handlerRuns' = [handlerRuns EXCEPT ![r] = @ + 1]
    /\ loadCalls' = loadCalls + 1
    /\ gModel' = BindModel(app, load_model(loadCalls + 1))
    /\ gTokenizer' = BindTokenizer(app, load_model(loadCalls + 1))
    /\ tokCalls' = [tokCalls EXCEPT ![r] = @ + 1]
    /\ inputs' = [inputs EXCEPT ![r] = Tokenize(req[r].prompt)]
    /\ rpc' = [rpc EXCEPT ![r] = "encoded"]
    /\ loopCurrent' = r
    /\ UNCHANGED <<app, startPc, loadResult, status, respBody, raised,
                   body, req, outputs, text, calls>>

\* main.py line 15: inputs = tokenizer(req.prompt, return_tensors="pt")
GenEncode(r) ==
    /\ startPc = "serving"
    /\ app = "main"
    /\ rpc[r] = "ready"
    /\ loopCurrent = 0
    /\ handlerRuns' = [handlerRuns EXCEPT ![r] = @ + 1]
    /\ IF IsCallableTokenizer(gTokenizer)
       THEN /\ tokCalls' = [tokCalls EXCEPT ![r] = @ + 1]
            /\ inputs' = [inputs EXCEPT ![r] = Tokenize(req[r].prompt)]
            /\ rpc' = [rpc EXCEPT ![r] = "encoded"]
            /\ loopCurrent' = IF SuspendsAfter("encode") THEN 0 ELSE r
            /\ UNCHANGED <<status, respBody, raised>>
       ELSE /\ raised' = [raised EXCEPT ![r] = "type"]
            /\ status' = [status EXCEPT ![r] = UnhandledResponse.status]
            /\ respBody' = [respBody EXCEPT ![r] = UnhandledResponse.body]
            /\ rpc' = [rpc EXCEPT ![r] = "done"]
            /\ loopCurrent' = 0
            /\ UNCHANGED <<tokCalls, inputs>>
    /\ UNCHANGED <<startVars, body, req, outputs, text, calls>>

\* main.py lines 16-20: outputs = model.generate(**inputs, max_new_tokens=..., temperature=...)
GenGenerate(r) ==
    /\ startPc = "serving"
    /\ app = "main"
    /\ rpc[r] = "encoded"
    /\ loopCurrent \in {0, r}
    /\ IF HasGenerate(gModel)
       THEN \E fails \in BOOLEAN :
            LET result == IF fails THEN <<>>
                          ELSE StubGenerate(inputs[r].input_ids, MaxNewTokensArg(req[r]))
            IN
            /\ calls' = Append(calls,
                   [req |-> r,
                    input_ids |-> inputs[r].input_ids,
                    attention_mask |-> inputs[r].attention_mask,
                    max_new_tokens |-> MaxNewTokensArg(req[r]),
                    temperature |-> TemperatureArg(req[r]),
                    raised |-> fails,
                    result |-> result])
            /\ IF fails
               THEN /\ raised' = [raised EXCEPT ![r] = "generate"]
                    /\ status' = [status EXCEPT ![r] = UnhandledResponse.status]
                    /\ respBody' = [respBody EXCEPT ![r] = UnhandledResponse.body]
                    /\ rpc' = [rpc EXCEPT ![r] = "done"]
                    /\ loopCurrent' = 0
                    /\ outputs' = outputs
               ELSE /\ outputs' = [outputs EXCEPT ![r] = result]
                    /\ rpc' = [rpc EXCEPT ![r] = "generated"]
                    /\ loopCurrent' = IF SuspendsAfter("generate") THEN 0 ELSE r
                    /\ UNCHANGED <<raised, status, respBody>>
       ELSE /\ raised' = [raised EXCEPT ![r] = "attribute"]
            /\ status' = [status EXCEPT ![r] = UnhandledResponse.status]
            /\ respBody' = [respBody EXCEPT ![r] = UnhandledResponse.body]
            /\ rpc' = [rpc EXCEPT ![r] = "done"]
            /\ loopCurrent' = 0
            /\ UNCHANGED <<calls, outputs>>
    /\ UNCHANGED <<startVars, body, req, inputs, text, handlerRuns, tokCalls>>

\* main.py lines 21-22: text = tokenizer.decode(outputs[0], ...); return {"completion": text}
GenDecode(r) ==
    /\ startPc = "serving"
    /\ app = "main"
    /\ rpc[r] = "generated"
    /\ loopCurrent \in {0, r}
    /\ LET decoded == Decode(DecodedSequence(r), SkipSpecialTokens) IN
         /\ text' = [text EXCEPT ![r] = decoded]
         /\ respBody' = [respBody EXCEPT ![r] = ("completion" :> decoded)]
    /\ status' = [status EXCEPT ![r] = 200]
    /\ rpc' = [rpc EXCEPT ![r] = "done"]
    /\ loopCurrent' = 0
    /\ UNCHANGED <<startVars, body, req, inputs, outputs, raised, handlerRuns,
                   tokCalls, calls>>

\* handler.py lines 15-17: response = model.generate(input.prompt); return {"output": response}
\* run() is a plain function: the framework runs it in a worker thread
run(r) ==
    /\ startPc = "serving"
    /\ app = "handler"
    /\ rpc[r] = "ready"
    /\ handlerRuns' = [handlerRuns EXCEPT ![r] = @ + 1]
    /\ IF HasGenerate(gModel)
       THEN \E fails \in BOOLEAN :
            LET result == IF fails THEN <<>>
                          ELSE StubGenerate(<<req[r].prompt>>, StubMaxGen)
            IN
            /\ calls' = Append(calls,
                   [req |-> r,
                    input_ids |-> <<req[r].prompt>>,
                    attention_mask |-> <<>>,
                    max_new_tokens |-> StubMaxGen,
                    temperature |-> 10,
                    raised |-> fails,
                    result |-> result])
            /\ IF fails
               THEN /\ raised' = [raised EXCEPT ![r] = "generate"]
                    /\ status' = [status EXCEPT ![r] = UnhandledResponse.status]
                    /\ respBody' = [respBody EXCEPT ![r] = UnhandledResponse.body]
               ELSE /\ raised' = raised
                    /\ status' = [status EXCEPT ![r] = 200]
                    /\ respBody' = [respBody EXCEPT ![r] = ("output" :> result)]
       ELSE /\ raised' = [raised EXCEPT ![r] = "attribute"]
            /\ status' = [status EXCEPT ![r] = UnhandledResponse.status]
            /\ respBody' = [respBody EXCEPT ![r] = UnhandledResponse.body]
            /\ calls' = calls
    /\ rpc' = [rpc EXCEPT ![r] = "done"]
    /\ UNCHANGED <<startVars, body, req, inputs, outputs, text, tokCalls, loopCurrent>>

Next ==
    \/ LoadOk
    \/ LoadRaises
    \/ RegisterRoute
    \/ \E r \in Reqs : Arrive(r)
    \/ \E r \in Reqs : Validate(r)
    \/ \E r \in Reqs : GenEncode(r)
    \/ \E r \in Reqs : GenGenerate(r)
    \/ \E r \in Reqs : GenDecode(r)
    \/ \E r \in Reqs : run(r)

Spec == Init /\ [][Next]_vars

(***************************************************************************)
(* Properties                                                              *)
(***************************************************************************)
Done(r) == rpc[r] = "done"
HasPrompt(r) == "prompt" \in DOMAIN body[r]
InHandler(r) == rpc[r] \in {"encoded", "generated"}
Pieces == {Vocab[i] : i \in 1..Len(Vocab)}
IsString(v) == v \in Seq(Pieces)
CallsOf(r) == {i \in DOMAIN calls : calls[i].req = r}

\* C1: every POST /run with a prompt, handled after start-up, ends with 200 and
\* a body whose key `output` holds a string, and the object whose generate the
\* handler calls is the loaded model.
C1_RunReturnsOutput ==
    \A r \in Reqs :
        (app = "handler" /\ Done(r) /\ HasPrompt(r)) =>
            /\ HasGenerate(gModel)
            /\ status[r] = 200
            /\ DOMAIN respBody[r] = {"output"}
            /\ IsString(respBody[r].output)

\* C2: every POST /generate with a prompt whose generation call does not fail
\* ends with 200 and a body whose key `completion` holds the decode, special
\* tokens skipped, of the first sequence the generation call returned.
C2_GenerateReturnsCompletion ==
    \A r \in Reqs :
        (app = "main" /\ Done(r) /\ HasPrompt(r) /\ raised[r] # "generate") =>
            /\ status[r] = 200
            /\ DOMAIN respBody[r] = {"completion"}
            /\ IsString(respBody[r].completion)
            /\ \E i \in CallsOf(r) :
                   respBody[r].completion = Decode(calls[i].result[1], TRUE)

\* a completed /generate request whose generated sequence ends with a special token
C2_Witness ==
    \E r \in Reqs : \E i \in CallsOf(r) :
        /\ app = "main" /\ Done(r) /\ status[r] = 200
        /\ body[r].prompt = <<"a", "b">>
        /\ calls[i].result[1][Len(calls[i].result[1])] = EOS
        /\ Len(respBody[r].completion) = Len(calls[i].result[1]) - 2
        /\ respBody[r].completion[3] = "x"

\* C3: a request to either route whose body lacks `prompt` ends in 422, never
\* in a server error, and neither the tokenizer nor generate is invoked for it.
C3_MissingPromptIs422 ==
    \A r \in Reqs :
        (rpc[r] # "new" /\ ~HasPrompt(r)) =>
            /\ status[r] \in {0, 422}
            /\ Done(r) => status[r] = 422
            /\ handlerRuns[r] = 0
            /\ tokCalls[r] = 0
            /\ CallsOf(r) = {}

\* a request without prompt answered 422 while another request was served by the handler
C3_Witness ==
    \E r, q \in Reqs :
        /\ Done(r) /\ ~HasPrompt(r) /\ status[r] = 422
        /\ respBody[r] = ("detail" :> <<"prompt">>)
        /\ Done(q) /\ handlerRuns[q] = 1

\* C4: the generation call receives max_new_tokens = the request's max_tokens
\* when present and 128 when omitted, and temperature = the request's
\* temperature when present and 0.7 when omitted, each independently.
C4_DefaultsForwarded ==
    \A i \in DOMAIN calls :
        LET b == body[calls[i].req] IN
        app = "main" =>
            /\ calls[i].max_new_tokens =
                   IF "max_tokens" \in DOMAIN b THEN b.max_tokens ELSE 128
            /\ calls[i].temperature =
                   IF "temperature" \in DOMAIN b THEN b.temperature ELSE 7

\* one call with max_tokens given and temperature omitted, one the other way round
C4_Witness ==
    \E i, j \in DOMAIN calls :
        /\ DOMAIN body[calls[i].req] = {"prompt", "max_tokens"}
        /\ calls[i].max_new_tokens = 2 /\ calls[i].temperature = 7
        /\ DOMAIN body[calls[j].req] = {"prompt", "temperature"}
        /\ calls[j].max_new_tokens = 128 /\ calls[j].temperature = 10

\* C5: the model/tokenizer pair comes from exactly one load_model() call, which
\* has completed before any handler runs, and no step taken while serving
\* rebinds the module-level model or tokenizer.
C5_LoadedOnceNeverRebound ==
    /\ [](/\ loadCalls <= 1
          /\ \A r \in Reqs : handlerRuns[r] > 0 => (loadCalls = 1 /\ loadResult = "ok"))
    /\ [][startPc = "serving" =>
             (gModel' = gModel /\ gTokenizer' = gTokenizer /\ loadCalls' = loadCalls)]_vars

\* every request has been through its handler and the pair is still the one loaded at start-up
C5_Witness ==
    /\ \A r \in Reqs : Done(r) /\ handlerRuns[r] = 1
    /\ loadCalls = 1
    /\ gModel = BindModel(app, load_model(1))
    /\ app = "main"

\* the response a request gets when it is the only request handled
AloneResponse(a, b, fails) ==
    LET schema == Schema(a)
        q == ParseBody(schema, b)
        loaded == load_model(1)
    IN  IF ValidationErrors(schema, b) # {}
        THEN [status |-> 422, body |-> ("detail" :> DetailOf(ValidationErrors(schema, b)))]
        ELSE IF ~HasGenerate(BindModel(a, loaded)) \/ fails
        THEN [status |-> 500, body |-> EmptyFn]
        ELSE [status |-> 200,
              body |-> ("completion" :>
                  Decode(StubGenerate(Tokenize(q.prompt).input_ids, q.max_tokens)[1], TRUE))]

\* C6: in every interleaving each request's response equals the response the
\* same request gets when handled alone.
C6_NoCrossRequestLeak ==
    \A r \in Reqs :
        Done(r) =>
            [status |-> status[r], body |-> respBody[r]]
                = AloneResponse(app, body[r], raised[r] = "generate")

\* two requests served one after the other with different completions
C6_Witness ==
    /\ app = "main"
    /\ \A r \in Reqs : Done(r) /\ status[r] = 200
    /\ Len(calls) >= 2
    /\ calls[1].result # calls[2].result
    /\ respBody[calls[2].req] # respBody[calls[1].req]

\* C7: when the generation call raises, generate was called exactly once for
\* the request, nothing of a result is returned and the request ends as 500.
C7_NoLocalRecovery ==
    \A r \in Reqs :
        /\ raised[r] # "none" =>
               /\ Done(r)
               /\ status[r] = 500
               /\ respBody[r] = EmptyFn
               /\ text[r] = <<>>
               /\ Cardinality(CallsOf(r)) <= 1
        /\ raised[r] = "generate" =>
               /\ Cardinality(CallsOf(r)) = 1
               /\ \A i \in CallsOf(r) : calls[i].raised

\* a /generate request whose generation call raised
C7_Witness ==
    \E r \in Reqs :
        /\ app = "main" /\ raised[r] = "generate" /\ Done(r)
        /\ tokCalls[r] = 1 /\ Cardinality(CallsOf(r)) = 1

\* C8: a /generate request with max_tokens = 0 passes validation, forwards
\* max_new_tokens = 0 and returns the decode of the prompt prefix only.
C8_ZeroMaxTokens ==
    \A r \in Reqs :
        (/\ app = "main" /\ rpc[r] # "new" /\ HasPrompt(r)
         /\ "max_tokens" \in DOMAIN body[r] /\ body[r].max_tokens = 0) =>
            /\ status[r] # 422
            /\ \A i \in CallsOf(r) : calls[i].max_new_tokens = 0
            /\ (Done(r) /\ raised[r] # "generate") =>
                   /\ status[r] = 200
                   /\ respBody[r] =
                          ("completion" :> Decode(Tokenize(body[r].prompt).input_ids[1], TRUE))

\* a served request with max_tokens = 0 and a non-empty prompt
C8_Witness ==
    \E r \in Reqs :
        /\ app = "main" /\ Done(r) /\ status[r] = 200
        /\ "max_tokens" \in DOMAIN body[r] /\ body[r].max_tokens = 0
        /\ body[r].prompt = <<"a", "b">>
        /\ respBody[r].completion = <<"a", "b">>

\* C9: if load_model() raises at start-up the import fails: no route is served
\* and no handler ever runs; a handler runs only after a successful load.
C9_LoadFailureStopsStartup ==
    /\ loadResult = "raised" =>
           /\ startPc = "crashed"
           /\ \A r \in Reqs : rpc[r] = "new" /\ handlerRuns[r] = 0
    /\ \A r \in Reqs : rpc[r] # "new" => (loadResult = "ok" /\ startPc = "serving")

\* load_model() raised
C9_Witness == loadResult = "raised" /\ startPc = "crashed" /\ loadCalls = 1

\* C10: at most one /generate request is between its encode and its decode,
\* and it is the one the event loop is running.
C10_HandlerNotInterleaved ==
    /\ Cardinality({r \in Reqs : InHandler(r)}) <= 1
    /\ \A r \in Reqs : InHandler(r) => loopCurrent = r

\* one request between generate and decode while another, validated, waits
C10_Witness ==
    \E r, q \in Reqs :
        /\ rpc[r] = "generated" /\ rpc[q] = "ready" /\ loopCurrent = r

====
